---- MODULE Spec2Model ----
(***************************************************************************)
(* A model of aio_pika/pika/adapters/base_connection.py: BaseConnection,   *)
(* the socket transport between a reactor (ioloop) and the protocol layer  *)
(* (connection.Connection).  Every handler is a deterministic transformer  *)
(* of a connection record; what the operating system answers to each       *)
(* syscall is read from a tape of outcomes carried in the record (field    *)
(* io), so that one action of the model is one whole call of a handler.    *)
(***************************************************************************)
EXTENDS Integers, Sequences, FiniteSets, TLC

\* ------------------------------------------------------------------ bounds
\* frames enqueued during one connection lifetime, where only the write path
\* is exercised (SpecWrite)
MaxFrames == 3
\* frames enqueued during one connection lifetime, where every event mask,
\* error value and phase is exercised (Spec)
MaxQueued == 1
\* bytes in one frame (SpecWrite)
MaxFrameLen == 2
\* bytes in one frame (Spec)
MaxQueuedLen == 1
\* interrupted syscalls (EINTR) answered to one handler call; they are
\* answered to the calls that make one kind of syscall (see Retries)
MaxRetries == 1
\* bytes returned by one successful recv
MaxRead == 1
\* addresses returned by getaddrinfo
MaxCandidates == 2
\* WANT_READ / WANT_WRITE signals raised by one TLS handshake
MaxHandshake == 2

\* --------------------------------------------------------------- constants
READ == 1
WRITE == 4
ERROR == 8

EINTR == 4
EBADF == 9
EAGAIN == 11
EWOULDBLOCK == 11
EPIPE == 32
ECONNABORTED == 103

SSL_ERROR_WANT_READ == 2
SSL_ERROR_WANT_WRITE == 3

ERRORS_TO_ABORT == {EBADF, ECONNABORTED, EPIPE}
\* an ignore list without the interrupted syscall
ERRORS_TO_IGNORE_no_eintr == {EWOULDBLOCK, EAGAIN}
ERRORS_TO_IGNORE == {EWOULDBLOCK, EAGAIN, EINTR}

\* events & bit
Has(mask, bit) == (mask \div bit) % 2 = 1
\* events | bit
BitOr(mask, bit) == IF Has(mask, bit) THEN mask ELSE mask + bit

\* The protocol phases of connection.Connection (connection_state).
CONNECTION_CLOSED == "Closed"
CONNECTION_INIT == "Init"
CONNECTION_PROTOCOL == "ProtocolHandshake"
CONNECTION_START == "Authenticating"
CONNECTION_TUNE == "Tuning"
CONNECTION_OPEN == "Open"
CONNECTION_CLOSING == "Closing"

\* ------------------------------------------------------------ error values
\* An error value is what str(), .errno, isinstance() and .args[0] tell of
\* it: its class, its errno (0: None, no code) and whether its text holds
\* 'timed out'.  An ssl.SSLError carries its SSL code as args[0] and errno.
NoError == [cls |-> "None", errno |-> 0, timed_out |-> FALSE]
OSError(code) == [cls |-> "OSError", errno |-> code, timed_out |-> FALSE]
SSLError(code) == [cls |-> "SSLError", errno |-> code, timed_out |-> FALSE]
\* socket.timeout: an OSError without errno whose text is 'timed out'
SocketTimeout == [cls |-> "timeout", errno |-> 0, timed_out |-> TRUE]
\* OSError(ETIMEDOUT, 'Connection timed out'): the constructor of OSError
\* makes a TimeoutError of it, and socket.timeout is that class, so that
\* `except socket.timeout` catches it; it has its errno (110)
ConnectionTimedOut == [cls |-> "timeout", errno |-> 110, timed_out |-> TRUE]

\* What send() raises: would-block, interrupt, socket.timeout, broken pipe,
\* an OSError without code, ETIMEDOUT; under TLS also WANT_WRITE.
SendErrors(ssl) ==
    {OSError(EAGAIN), OSError(EINTR), SocketTimeout, OSError(EPIPE), OSError(0),
     ConnectionTimedOut}
    \cup (IF ssl THEN {SSLError(SSL_ERROR_WANT_WRITE)} ELSE {})
\* What recv() raises: would-block, interrupt, socket.timeout, connection
\* reset (104, in neither list); under TLS also WANT_READ and SSL_ERROR_SSL.
RecvErrors(ssl) ==
    {OSError(EAGAIN), OSError(EINTR), SocketTimeout, OSError(104)}
    \cup (IF ssl THEN {SSLError(SSL_ERROR_WANT_READ), SSLError(1)} ELSE {})
\* The error values a reactor hands to _handle_events.
EventErrors(ssl) ==
    {NoError, OSError(EBADF), OSError(ECONNABORTED), OSError(EPIPE),
     OSError(EAGAIN), OSError(EINTR), OSError(104), OSError(0), SocketTimeout}
    \cup (IF ssl THEN {SSLError(SSL_ERROR_WANT_READ),
                       SSLError(SSL_ERROR_WANT_WRITE), SSLError(1)}
          ELSE {})

VARIABLES
    params_ssl,            \* self.params.ssl
    stop_ioloop_on_close,  \* self.stop_ioloop_on_close
    ioloop,                \* self.ioloop is an IOLoop (FALSE: None, the default)
    socket,                \* self.socket: 0 is None, else the socket's number
    event_state,           \* self.event_state
    reactor_mask,          \* the mask the ioloop last got for the socket (0: none)
    outbound_buffer,       \* self.outbound_buffer: a sequence of frames
    connection_state,      \* self.connection_state, owned by the protocol layer
    heartbeat,             \* self.heartbeat is set (a heartbeat timer runs)
    wire,                  \* the bytes the socket accepted, in order
    enqueued,              \* <<frames, bytes>> enqueued in this lifetime
    dropped,               \* a popped frame was given up with the socket open
    last                   \* the last operation: its inputs and what it did

vars == <<params_ssl, stop_ioloop_on_close, ioloop, socket, event_state, reactor_mask,
          outbound_buffer, connection_state, heartbeat, wire, enqueued,
          dropped, last>>

base_events == BitOr(READ, ERROR)

\* The effects of one operation, in the order they happened (log) and in
\* detail: the masks pushed to the ioloop, the errors classified, the
\* queue around _handle_write and the outcomes its sends consumed, the
\* sockets created and closed, the candidates tried, the phases the protocol
\* layer set (from which, to which), the exception that left the operation.
NoFx ==
    [log |-> <<>>, updates |-> <<>>, handled |-> <<>>, delivered |-> <<>>,
     w_before |-> <<>>, w_after |-> <<>>, w_script |-> <<>>,
     created |-> 0, attempts |-> <<>>, closed |-> <<>>, nonblocking |-> 0,
     phases |-> <<>>, raised |-> "none", result |-> "none"]

NoIo == [sends |-> <<>>, recvs |-> <<>>, shutdown_raises |-> FALSE]

\* The connection as the handlers see it: the object's fields, the tape of
\* syscall outcomes still to be consumed, and the effects so far.
Conn(io) ==
    [socket |-> socket, event_state |-> event_state,
     reactor_mask |-> reactor_mask, outbound_buffer |-> outbound_buffer,
     connection_state |-> connection_state, heartbeat |-> heartbeat,
     wire |-> wire, dropped |-> dropped, io |-> io, fx |-> NoFx]

Log(s, what) == [s EXCEPT !.fx.log = Append(@, what)]
Raise(s, exc) == [s EXCEPT !.fx.raised = exc]
Raised(s) == s.fx.raised # "none"
\* Connection._set_connection_state: the protocol layer sets the phase.
_set_connection_state(s, p) ==
    [s EXCEPT !.connection_state = p,
              !.fx.phases = Append(@, [was |-> s.connection_state, to |-> p])]
Count(log, what) == Cardinality({i \in DOMAIN log : log[i] = what})

\* ------------------------------------------------------ disconnect sequence
\* Connection._remove_heartbeat: stop the heartbeat checker, if any.
_remove_heartbeat(s) == Log([s EXCEPT !.heartbeat = FALSE], "remove_heartbeat")

\* if self.socket: shutdown (an OSError is passed over), close, forget it.
\* A closed descriptor is gone from the ioloop's set as well.
_cleanup_socket(s) ==
    IF s.socket # 0
    THEN LET a == Log(s, IF s.io.shutdown_raises THEN "shutdown_failed" ELSE "shutdown")
             b == Log(a, "close")
         IN [b EXCEPT !.fx.closed = Append(@, s.socket), !.socket = 0,
                      !.reactor_mask = 0]
    ELSE s

\* The exception _check_state_on_disconnect raises in phase p ("none": it returns).
_check_state_on_disconnect(p) ==
    IF p = CONNECTION_PROTOCOL THEN "IncompatibleProtocolError"
    ELSE IF p = CONNECTION_START THEN "ProbableAuthenticationError"
    ELSE IF p = CONNECTION_TUNE THEN "ProbableAccessDeniedError"
    ELSE "none"

\* an ioloop stop that marks the connection closed itself
_handle_ioloop_stop_marking_closed(s) ==
    [(IF stop_ioloop_on_close /\ ioloop THEN Log(s, "ioloop_stop") ELSE s)
       EXCEPT !.connection_state = CONNECTION_CLOSED]

\* if self.stop_ioloop_on_close and self.ioloop: self.ioloop.stop()
_handle_ioloop_stop(s) ==
    IF stop_ioloop_on_close /\ ioloop THEN Log(s, "ioloop_stop") ELSE s

\* Connection._init_connection_state: the protocol layer wipes its own state,
\* the phase, the outbound buffer and the heartbeat reference among it.
Connection_init_connection_state(s) ==
    [_set_connection_state(s, CONNECTION_CLOSED) EXCEPT
       !.outbound_buffer = <<>>,
       !.heartbeat = FALSE]

_init_connection_state(s) ==
    [Connection_init_connection_state(s) EXCEPT !.event_state = base_events,
                                                !.socket = 0]

\* a disconnect without the finally: an exception of the phase check skips
\* the ioloop stop and the state reset
_adapter_disconnect_no_finally(s) ==
    LET a == _cleanup_socket(_remove_heartbeat(Log(s, "disconnect")))
        exc == _check_state_on_disconnect(a.connection_state)
    IN IF exc # "none" THEN Raise(a, exc)
       ELSE _init_connection_state(_handle_ioloop_stop(a))

\* a disconnect that resets the state before it checks the phase
_adapter_disconnect_reset_first(s) ==
    LET a == _cleanup_socket(_remove_heartbeat(Log(s, "disconnect")))
        b == _init_connection_state(_handle_ioloop_stop(a))
    IN Raise(b, _check_state_on_disconnect(b.connection_state))

\* try: heartbeat, socket, phase check; finally: ioloop stop and state reset.
\* The phase checked is the one held when the sequence starts.
_adapter_disconnect(s) ==
    LET a == _cleanup_socket(_remove_heartbeat(Log(s, "disconnect")))
        exc == _check_state_on_disconnect(a.connection_state)
        b == _init_connection_state(_handle_ioloop_stop(a))
    IN Raise(b, exc)

\* Connection._on_connection_closed(None, True): the protocol layer is told.
_on_connection_closed(s) == Log(s, "connection_closed")

_handle_disconnect(s) ==
    LET a == _adapter_disconnect(s)
    IN IF Raised(a) THEN a ELSE _on_connection_closed(a)

\* ------------------------------------------------------------- event mask
\* self.ioloop.update_handler(self.socket.fileno(), self.event_state), after
\* event_state went from `was` to its present value; without an ioloop, or
\* without a socket, the call fails on None
update_handler(s, was) ==
    IF ~ioloop \/ s.socket = 0
    THEN Raise(s, "AttributeError")
    ELSE [Log(s, "update") EXCEPT
            !.fx.updates = Append(@, [prev |-> s.reactor_mask, was |-> was,
                                      to |-> s.event_state]),
            !.reactor_mask = s.event_state]

_manage_event_state(s) ==
    IF s.outbound_buffer # <<>>
    THEN IF ~Has(s.event_state, WRITE)
         THEN update_handler([s EXCEPT !.event_state = BitOr(@, WRITE)], s.event_state)
         ELSE s
    ELSE IF Has(s.event_state, WRITE)
         THEN update_handler([s EXCEPT !.event_state = base_events], s.event_state)
         ELSE s

\* --------------------------------------------------------- error classifier
\* None for no error value, else its errno (0 stands for None)
_get_error_code(error_value) ==
    IF error_value.cls = "None" THEN 0 ELSE error_value.errno

_handle_error(s, error_value) ==
    LET a == [Log(s, "handle_error") EXCEPT !.fx.handled = Append(@, error_value)]
        error_code == _get_error_code(error_value)
    IN IF error_value.timed_out THEN Raise(a, "socket.timeout")
       ELSE IF error_code = 0 THEN a
       ELSE IF error_code \in ERRORS_TO_IGNORE THEN a
       ELSE IF error_code \in ERRORS_TO_ABORT THEN _handle_disconnect(a)
       ELSE IF params_ssl /\ error_value.cls = "SSLError"
            THEN IF error_value.errno = SSL_ERROR_WANT_READ
                 THEN _handle_disconnect([a EXCEPT !.event_state = READ])
                 ELSE IF error_value.errno = SSL_ERROR_WANT_WRITE
                 THEN _handle_disconnect([a EXCEPT !.event_state = WRITE])
                 ELSE _handle_disconnect(a)
       ELSE _handle_disconnect(a)

\* ------------------------------------------------------------ syscall tape
\* send() or recv() returned n (bytes sent, bytes read)
Returns(n) == [ret |-> n, err |-> NoError]
\* send() or recv() raised e
Raises(e) == [ret |-> -1, err |-> e]

\* frame[bw:]
Suffix(frame, bw) == SubSeq(frame, bw + 1, Len(frame))

\* a requeue that puts the unsent suffix behind the frames still waiting
RequeueSuffixBehind(buf, frame, bw) == Append(buf, Suffix(frame, bw))
\* self.outbound_buffer.appendleft(frame[bw:])
RequeueSuffix(buf, frame, bw) == <<Suffix(frame, bw)>> \o buf

\* a requeue that puts the frame behind the frames still waiting
RequeueFrameBehind(buf, frame) == Append(buf, frame)
\* self.outbound_buffer.appendleft(frame)
RequeueFrame(buf, frame) == <<frame>> \o buf

\* ---------------------------------------------------------------- write path
\* One turn of `while self.outbound_buffer`: pop the front frame and send it.
\* A send interrupted by EINTR is sent again; a short one puts frame[bw:]
\* back at the front and leaves; socket.timeout and would-block put the whole
\* frame back and leave; any other error goes to _handle_error, the popped
\* frame with it.
RECURSIVE WriteLoop(_)
WriteLoop(s) ==
    IF s.outbound_buffer = <<>> THEN s
    ELSE IF s.io.sends = <<>> THEN Raise(s, "NoOutcome")
    ELSE
      LET frame == Head(s.outbound_buffer)
          o == Head(s.io.sends)
          popped == [Log(s, "send") EXCEPT !.outbound_buffer = Tail(@),
                                           !.io.sends = Tail(@),
                                           !.fx.w_script = Append(@, o)]
          requeued == [popped EXCEPT !.outbound_buffer = RequeueFrame(@, frame)]
      IN IF o.ret >= 0
         THEN LET bw == o.ret
                  sent == [popped EXCEPT !.wire = @ \o SubSeq(frame, 1, bw)]
              IN IF bw < Len(frame)
                 THEN [sent EXCEPT !.outbound_buffer = RequeueSuffix(@, frame, bw)]
                 ELSE WriteLoop(sent)
         ELSE IF o.err.errno = EINTR THEN WriteLoop(requeued)
         ELSE IF o.err.cls = "timeout" THEN requeued
         ELSE IF o.err.errno \in {EAGAIN, EWOULDBLOCK} THEN requeued
         ELSE LET r == _handle_error(popped, o.err)
              IN [r EXCEPT !.dropped = @ \/ (r.socket # 0)]

_handle_write(s) ==
    LET r == WriteLoop([Log(s, "handle_write") EXCEPT !.fx.w_before = s.outbound_buffer])
    IN [r EXCEPT !.fx.w_after = r.outbound_buffer]

\* write early: _handle_write, then _manage_event_state
_flush_outbound(s) ==
    LET a == _handle_write(s)
    IN IF Raised(a) THEN a ELSE _manage_event_state(a)

\* ----------------------------------------------------------------- read path
\* Connection._on_data_available: the data goes to the protocol layer.
_on_data_available(s, n) == [Log(s, "deliver") EXCEPT !.fx.delivered = Append(@, n)]

\* an empty read that is taken for no data yet
EmptyReadIgnored(s) == Log(s, "empty_read")
\* if not data or data == 0: return self._handle_disconnect()
EmptyRead(s) == _handle_disconnect(Log(s, "empty_read"))

RECURSIVE _handle_read(_)
_handle_read(s) ==
    IF s.io.recvs = <<>> THEN Raise(s, "NoOutcome")
    ELSE
      LET o == Head(s.io.recvs)
          a == [Log(s, "recv") EXCEPT !.io.recvs = Tail(@)]
      IN IF o.ret = 0 THEN EmptyRead(a)
         ELSE IF o.ret > 0 THEN _on_data_available(a, o.ret)
         ELSE IF o.err.errno = EINTR THEN _handle_read(a)
         ELSE IF o.err.cls = "timeout" THEN a
         ELSE IF o.err.cls = "SSLError"
              THEN IF o.err.errno = SSL_ERROR_WANT_READ THEN a
                   ELSE _handle_error(a, o.err)
         ELSE IF o.err.errno \in {EAGAIN, EWOULDBLOCK} THEN a
         ELSE _handle_error(a, o.err)

\* ------------------------------------------------------------------ dispatch
\* The four ifs of _handle_events after the closed-socket check, each
\* reading self.socket anew; an exception of one leaves the call.
EventsWrite(s, events) ==
    IF s.socket # 0 /\ Has(events, WRITE) THEN _flush_outbound(s) ELSE s

\* a read step that does not look at self.socket
EventsReadUnguarded(s, events, write_only) ==
    IF Raised(s) THEN s
    ELSE IF ~write_only /\ Has(events, READ) THEN _handle_read(s)
    ELSE s

EventsRead(s, events, write_only) ==
    IF Raised(s) THEN s
    ELSE IF s.socket # 0 /\ ~write_only /\ Has(events, READ) THEN _handle_read(s)
    ELSE s

\* a dispatch without the write-only guard
EventsBadLibcSkipped(s, events, write_only) == s

EventsBadLibc(s, events, write_only) ==
    IF Raised(s) THEN s
    ELSE IF s.socket # 0 /\ write_only /\ Has(events, READ) /\ Has(events, ERROR)
    THEN _handle_disconnect(Log(s, "bad_libc"))
    ELSE s

EventsError(s, events, error) ==
    IF Raised(s) THEN s
    ELSE IF s.socket # 0 /\ Has(events, ERROR) THEN _handle_error(s, error)
    ELSE s

\* a dispatch that classifies the error without looking at self.socket
_handle_events_error_unguarded(s, events, error, write_only) ==
    LET a == EventsBadLibc(
               EventsRead(EventsWrite(s, events), events, write_only),
               events, write_only)
    IN IF Raised(a) THEN a
       ELSE IF Has(events, ERROR) THEN _handle_error(a, error)
       ELSE a

_handle_events(s, events, error, write_only) ==
    IF s.socket = 0 THEN Log(s, "closed_socket")
    ELSE EventsError(
           EventsBadLibc(
             EventsRead(EventsWrite(s, events), events, write_only),
             events, write_only),
           events, error)

\* --------------------------------------------------------------------- close
\* Connection.close: nothing on a connection that is closing or closed;
\* otherwise the phase becomes Closing and the connection is taken down, the
\* protocol layer being told.
Connection_close(s) ==
    IF s.connection_state \in {CONNECTION_CLOSING, CONNECTION_CLOSED} THEN s
    ELSE _handle_disconnect(_set_connection_state(s, CONNECTION_CLOSING))

\* super().close(reply_code, reply_text), then self._handle_ioloop_stop()
close(s) ==
    LET a == Connection_close(s)
    IN IF Raised(a) THEN a ELSE _handle_ioloop_stop(a)

\* ---------------------------------------------------------------------- dial
\* What one address does: connect() returns, times out or fails; a TLS
\* handshake raises the SSL codes of hs in turn (WANT_READ, WANT_WRITE) and
\* then completes (hs_end "ok") or fails with another SSLError ("error").
Candidate(connect, hs, hs_end) == [connect |-> connect, hs |-> hs, hs_end |-> hs_end]

\* The value _adapter_connect returns: None, or the error and its candidate.
DialResult(cand, why) == [cand |-> cand, why |-> why]

\* while True: do_handshake(); WANT_READ and WANT_WRITE set event_state and
\* go round again, any other SSLError leaves, and so does an exception that
\* is no SSLError (socket.timeout: the socket still has its connect timeout)
\* or an exception of _manage_event_state (no ioloop to update)
RECURSIVE _do_ssl_handshake(_, _, _)
_do_ssl_handshake(s, hs, hs_end) ==
    IF hs = <<>>
    THEN IF hs_end = "ok" THEN Log(s, "do_handshake")
         ELSE IF hs_end = "error" THEN Raise(Log(s, "do_handshake"), "SSLError")
         ELSE Raise(Log(s, "do_handshake"), "socket.timeout")
    ELSE LET a == [Log(s, "do_handshake") EXCEPT
                     !.event_state = IF Head(hs) = SSL_ERROR_WANT_READ THEN READ ELSE WRITE]
             m == _manage_event_state(a)
         IN IF Raised(m) THEN m
            ELSE _do_ssl_handshake(m, Tail(hs), hs_end)

\* A new socket for candidate i, connected and, with TLS, shaken hands with;
\* fx.result is the error returned (why "none": None).  Of the exceptions of
\* the handshake the SSLError is caught and returned; another one leaves.
_create_and_connect_to_socket(s, c, i) ==
    LET made == [Log(s, "socket") EXCEPT !.socket = s.fx.created + 1,
                                         !.fx.created = @ + 1,
                                         !.fx.attempts = Append(@, i)]
        tried == Log(made, "connect")
    IN IF c.connect = "timeout"
       THEN [tried EXCEPT !.fx.result = DialResult(i, "timeout")]
       ELSE IF c.connect = "error"
       THEN [tried EXCEPT !.fx.result = DialResult(i, "OSError")]
       ELSE IF params_ssl
       THEN LET h == _do_ssl_handshake(tried, c.hs, c.hs_end)
            IN IF h.fx.raised = "SSLError"
               THEN [h EXCEPT !.fx.raised = "none",
                              !.fx.result = DialResult(i, "SSLError")]
               ELSE IF Raised(h)
               THEN [h EXCEPT !.fx.result = DialResult(i, "raised")]
               ELSE [h EXCEPT !.fx.result = DialResult(0, "none")]
       ELSE [tried EXCEPT !.fx.result = DialResult(0, "none")]

\* for sock_addr in addresses: the first candidate that connects is kept and
\* made non-blocking; the socket of a failed one is cleaned up; an exception
\* of _create_and_connect_to_socket leaves the loop and the dial
RECURSIVE ConnectLoop(_, _, _)
ConnectLoop(s, addresses, i) ==
    IF i > Len(addresses) THEN s
    ELSE LET a == _create_and_connect_to_socket(s, addresses[i], i)
         IN IF Raised(a) THEN a
            ELSE IF a.fx.result.why = "none"
            THEN [Log(a, "setblocking") EXCEPT !.fx.nonblocking = a.socket]
            ELSE ConnectLoop(_cleanup_socket(a), addresses, i + 1)

\* getaddrinfo is called again after each EINTR; another error is returned
_adapter_connect(s, d) ==
    LET RECURSIVE Resolve(_, _)
        Resolve(a, n) == IF n = 0 THEN Log(a, "getaddrinfo")
                         ELSE Resolve(Log(a, "getaddrinfo"), n - 1)
        r == Resolve(s, d.eintr)
    IN IF d.gai = "error"
       THEN [r EXCEPT !.fx.result = DialResult(0, "getaddrinfo")]
       ELSE ConnectLoop([r EXCEPT !.fx.result =
                            DialResult(0, "No socket addresses available")],
                        d.addresses, 1)

\* -------------------------------------------------------------------- inputs
\* The tapes _handle_write consumes to the end on queue buf: a short send, a
\* socket.timeout or an error other than EINTR ends the call, a full send
\* goes on with the next frame, an EINTR (at most retries of them) repeats.
RECURSIVE SendScripts(_, _)
SendScripts(buf, retries) ==
    IF buf = <<>> THEN {<<>>}
    ELSE {<<Returns(n)>> : n \in 0..(Len(Head(buf)) - 1)}
         \cup {<<Raises(e)>> : e \in {x \in SendErrors(params_ssl) : x.errno # EINTR}}
         \cup {<<Returns(Len(Head(buf)))>> \o t : t \in SendScripts(Tail(buf), retries)}
         \cup (IF retries > 0
               THEN {<<Raises(OSError(EINTR))>> \o t : t \in SendScripts(buf, retries - 1)}
               ELSE {})

\* The tapes _handle_read consumes: one recv, after at most retries EINTRs.
RECURSIVE RecvScripts(_)
RecvScripts(retries) ==
    {<<Returns(n)>> : n \in 0..MaxRead}
    \cup {<<Raises(e)>> : e \in {x \in RecvErrors(params_ssl) : x.errno # EINTR}}
    \cup (IF retries > 0
          THEN {<<Raises(OSError(EINTR))>> \o t : t \in RecvScripts(retries - 1)}
          ELSE {})

\* The event masks of a reactor: the subsets of {READ, WRITE, ERROR}.
EventMasks == {m \in 0..(READ + WRITE + ERROR) : ~Has(m, 2)}

\* The EINTRs answered to one _handle_events: up to MaxRetries where the
\* mask asks for one kind of syscall, none where it asks for more.
Retries(events) == IF events \in {READ, WRITE} THEN MaxRetries ELSE 0

\* The handshakes of one candidate: up to MaxHandshake WANT_ signals.
RECURSIVE Signals(_)
Signals(n) ==
    IF n = 0 THEN {<<>>}
    ELSE Signals(n - 1)
         \cup {<<c>> \o t : c \in {SSL_ERROR_WANT_READ, SSL_ERROR_WANT_WRITE},
                            t \in {x \in Signals(n - 1) : Len(x) = n - 1}}

FailingCandidates ==
    {Candidate("timeout", <<>>, "ok"), Candidate("error", <<>>, "ok")}
    \cup (IF params_ssl
          THEN {Candidate("ok", hs, "error") : hs \in Signals(MaxHandshake)}
          ELSE {})

\* The candidates whose handshake ends in an exception that is no SSLError.
RaisingCandidates ==
    IF params_ssl
    THEN {Candidate("ok", hs, "timeout") : hs \in Signals(MaxHandshake)}
    ELSE {}

ConnectingCandidates ==
    IF params_ssl
    THEN {Candidate("ok", hs, "ok") : hs \in Signals(MaxHandshake)}
    ELSE {Candidate("ok", <<>>, "ok")}

\* The address lists of at most n candidates, by what each does when tried;
\* the candidates after the first that connects, or that raises, are never
\* tried.
Untried(k) == [i \in 1..k |-> Candidate("ok", <<>>, "ok")]

RECURSIVE AddressLists(_)
AddressLists(n) ==
    IF n = 0 THEN {<<>>}
    ELSE {<<>>}
         \cup {<<c>> \o t : c \in FailingCandidates, t \in AddressLists(n - 1)}
         \cup {<<c>> \o Untried(k) :
                 c \in ConnectingCandidates \cup RaisingCandidates, k \in 0..(n - 1)}

\* What getaddrinfo does: eintr interrupted calls, then an error or a list.
DialInputs ==
    {[eintr |-> n, gai |-> "error", addresses |-> <<>>] : n \in 0..MaxRetries}
    \cup {[eintr |-> n, gai |-> "ok", addresses |-> a] :
            n \in 0..MaxRetries, a \in AddressLists(MaxCandidates)}

\* No dial was asked for.
NoDial == [eintr |-> 0, gai |-> "none", addresses |-> <<>>]

\* ------------------------------------------------------------------- actions
Snapshot ==
    [socket |-> socket, event_state |-> event_state, reactor_mask |-> reactor_mask,
     outbound_buffer |-> outbound_buffer, connection_state |-> connection_state,
     heartbeat |-> heartbeat, wire |-> wire]

\* The call consumed its tapes to the end, and shutdown() was made to fail
\* only where it was called.
Consumed(r) ==
    /\ r.fx.raised # "NoOutcome"
    /\ r.io.sends = <<>>
    /\ r.io.recvs = <<>>
    /\ r.io.shutdown_raises => Count(r.fx.log, "shutdown_failed") > 0

\* The object after the call.  self.socket is held as 1 between calls; the
\* histories kept of a socket (wire, enqueued, dropped) end with it.
Commit(r) ==
    /\ socket' = IF r.socket = 0 THEN 0 ELSE 1
    /\ event_state' = r.event_state
    /\ reactor_mask' = r.reactor_mask
    /\ outbound_buffer' = r.outbound_buffer
    /\ connection_state' = r.connection_state
    /\ heartbeat' = r.heartbeat
    /\ wire' = IF r.socket = 0 THEN <<>> ELSE r.wire
    /\ dropped' = IF r.socket = 0 THEN FALSE ELSE r.dropped
    /\ UNCHANGED <<params_ssl, stop_ioloop_on_close, ioloop>>

\* The record of a call: its arguments, the object before it, its effects
\* and the socket it leaves in self.socket.
Op(name, events, error, write_only, r) ==
    [op |-> name, events |-> events, error |-> error, write_only |-> write_only,
     dial |-> NoDial, pre |-> Snapshot, fx |-> r.fx, held |-> r.socket]

\* No call is under way: the ioloop has the control.
Idle ==
    [op |-> "idle", events |-> 0, error |-> NoError, write_only |-> FALSE,
     dial |-> NoDial,
     pre |-> [socket |-> 0, event_state |-> base_events, reactor_mask |-> 0,
              outbound_buffer |-> <<>>, connection_state |-> CONNECTION_CLOSED,
              heartbeat |-> FALSE, wire |-> <<>>],
     fx |-> NoFx, held |-> 0]

\* The call returns r: its script is used up, the object is as r leaves it,
\* and a lost socket ends the count of the frames of this lifetime.
Return(r, name, events, error, write_only, count) ==
    /\ Consumed(r)
    /\ Commit(r)
    /\ enqueued' = IF r.socket = 0 THEN <<0, 0>> ELSE count
    /\ last' = Op(name, events, error, write_only, r)

Constructed(stops, loops) ==
    /\ params_ssl \in BOOLEAN
    /\ stop_ioloop_on_close \in stops
    /\ ioloop \in loops
    /\ socket = 0
    /\ event_state = base_events
    /\ reactor_mask = 0
    /\ outbound_buffer = <<>>
    /\ connection_state = CONNECTION_CLOSED
    /\ heartbeat = FALSE
    /\ wire = <<>>
    /\ enqueued = <<0, 0>>
    /\ dropped = FALSE
    /\ last = Idle

Init == Constructed(BOOLEAN, BOOLEAN)

\* What Connection.connect makes of the dial r of d.
connected(r, d) ==
    LET ok == r.fx.result.why = "none"
        c == IF Raised(r) THEN r
             ELSE IF ok THEN _set_connection_state(r, CONNECTION_PROTOCOL)
             ELSE _set_connection_state(r, CONNECTION_CLOSED)
    IN /\ Commit([c EXCEPT !.reactor_mask = IF ok THEN base_events ELSE @])
       /\ enqueued' = <<0, 0>>
       /\ last' = [Op("open", 0, NoError, FALSE, c) EXCEPT !.dial = d]

\* Connection.connect: the phase becomes Init and the adapter dials; on
\* success the socket is registered with the ioloop under the base mask and
\* the protocol layer starts its handshake, on failure the phase is Closed.
\* An exception of the dial leaves connect as well, with the phase Init; the
\* socket of such a connection is not registered with the ioloop, so that no
\* event is reported for it and no frame is sent on it; close() can be called.
\* A connection is opened on an ioloop: with ioloop None there is nothing to
\* register the socket with, and no reactor to report events.
open ==
    /\ last = Idle
    /\ ioloop
    /\ socket = 0
    /\ connection_state = CONNECTION_CLOSED
    /\ \E d \in DialInputs :
         LET s == _set_connection_state(Conn(NoIo), CONNECTION_INIT)
         IN connected(_adapter_connect(s, d), d)

\* Connection._send_frame: the marshaled frame is appended to the outbound
\* buffer and _flush_outbound is called.  The bytes of a lifetime are
\* numbered in the order they are enqueued; at most limit frames of at most
\* maxlen bytes are.
enqueue(limit, maxlen) ==
    /\ last = Idle
    /\ socket # 0
    /\ connection_state # CONNECTION_INIT
    /\ enqueued[1] < limit
    /\ \E n \in 1..maxlen :
         LET frame == [i \in 1..n |-> enqueued[2] + i]
             buf == Append(outbound_buffer, frame)
         IN \E sends \in SendScripts(buf, MaxRetries), sd \in BOOLEAN :
              LET io == [sends |-> sends, recvs |-> <<>>, shutdown_raises |-> sd]
              IN Return(_flush_outbound([Conn(io) EXCEPT !.outbound_buffer = buf]),
                        "enqueue", 0, NoError, FALSE,
                        <<enqueued[1] + 1, enqueued[2] + n>>)

\* The reactor calls _handle_events(fd, events, error, write_only) with one
\* of the event masks.
handle_events(masks) ==
    /\ last = Idle
    /\ ioloop
    /\ connection_state # CONNECTION_INIT
    /\ \E events \in masks, write_only \in BOOLEAN :
         \E error \in (IF Has(events, ERROR) THEN EventErrors(params_ssl)
                       ELSE {NoError}),
            sends \in (IF socket # 0 /\ Has(events, WRITE)
                       THEN SendScripts(outbound_buffer, Retries(events))
                       ELSE {<<>>}),
            recvs \in (IF socket # 0 /\ Has(events, READ) /\ ~write_only
                       THEN RecvScripts(Retries(events)) \cup {<<>>}
                       ELSE {<<>>}),
            sd \in BOOLEAN :
           LET io == [sends |-> sends, recvs |-> recvs, shutdown_raises |-> sd]
           IN Return(_handle_events(Conn(io), events, error, write_only),
                     "handle_events", events, error, write_only, enqueued)

\* The protocol layer moves the phase on as the peer's frames arrive and as
\* the application closes; the heartbeat timer starts when tuning is done.
protocol_layer ==
    /\ last = Idle
    /\ socket # 0
    /\ connection_state \in {CONNECTION_PROTOCOL, CONNECTION_START,
                             CONNECTION_TUNE, CONNECTION_OPEN}
    /\ connection_state' =
         IF connection_state = CONNECTION_PROTOCOL THEN CONNECTION_START
         ELSE IF connection_state = CONNECTION_START THEN CONNECTION_TUNE
         ELSE IF connection_state = CONNECTION_TUNE THEN CONNECTION_OPEN
         ELSE CONNECTION_CLOSING
    /\ heartbeat' = (heartbeat \/ connection_state = CONNECTION_TUNE)
    /\ UNCHANGED <<params_ssl, stop_ioloop_on_close, ioloop, socket, event_state,
                   reactor_mask, outbound_buffer, wire, enqueued, dropped, last>>

\* The application calls close(), in whatever phase.
application_close ==
    /\ last = Idle
    /\ \E sd \in BOOLEAN :
         LET io == [sends |-> <<>>, recvs |-> <<>>, shutdown_raises |-> sd]
         IN Return(close(Conn(io)), "close", 0, NoError, FALSE, enqueued)

\* The call returns to its caller (the ioloop, the application); its record
\* is history.
returns ==
    /\ last # Idle
    /\ last' = Idle
    /\ UNCHANGED <<params_ssl, stop_ioloop_on_close, ioloop, socket, event_state,
                   reactor_mask, outbound_buffer, connection_state, heartbeat,
                   wire, enqueued, dropped>>

\* Every operation, under every event mask, error value and phase.
Next ==
    \/ open
    \/ enqueue(MaxQueued, MaxQueuedLen)
    \/ handle_events(EventMasks)
    \/ application_close
    \/ protocol_layer
    \/ returns

Spec == Init /\ [][Next]_vars

\* The write path: enqueue and write events only, on longer queues.
NextWrite ==
    \/ open
    \/ enqueue(MaxFrames, MaxFrameLen)
    \/ handle_events({WRITE})
    \/ returns

\* stop_ioloop_on_close is read by _handle_ioloop_stop alone; the write path
\* is explored with the flag off, on a connection that has an ioloop.
InitWrite == Constructed({FALSE}, {TRUE})

SpecWrite == InitWrite /\ [][NextWrite]_vars

\* -------------------------------------------------------------------- claims
\* What the claims read from the record of the last call.
Did(what) == Count(last.fx.log, what)
Called == last.op \in {"enqueue", "handle_events"}
\* the position of the first `what` in the log of the last call (0: none)
FirstAt(what) ==
    IF Did(what) = 0 THEN 0
    ELSE CHOOSE i \in DOMAIN last.fx.log :
           /\ last.fx.log[i] = what
           /\ \A j \in 1..(i - 1) : last.fx.log[j] # what
\* the last outcome the sends of the last _handle_write consumed
LastSend == last.fx.w_script[Len(last.fx.w_script)]
\* all sends before the last were interrupted (EINTR) and made again
OnlyRetriesBefore ==
    \A i \in 1..(Len(last.fx.w_script) - 1) :
      last.fx.w_script[i].ret < 0 /\ last.fx.w_script[i].err.errno = 4
\* the number of sends that returned
SendsReturned ==
    Cardinality({i \in DOMAIN last.fx.w_script : last.fx.w_script[i].ret >= 0})

RECURSIVE Flatten(_)
Flatten(q) == IF q = <<>> THEN <<>> ELSE Head(q) \o Flatten(Tail(q))

\* _handle_write ran on a non-empty queue and its send of the front frame A
\* returned k < len(A)
ShortSendOfHead ==
    /\ Called
    /\ Did("handle_write") = 1
    /\ last.fx.w_before # <<>>
    /\ last.fx.w_script # <<>>
    /\ OnlyRetriesBefore
    /\ LastSend.ret >= 0
    /\ LastSend.ret < Len(Head(last.fx.w_before))

\* C1: when the send of the front frame A of the queue [A, B, C] returns
\* k < len(A), _handle_write leaves the queue [A[k:], B, C]: the first k bytes
\* of A went to the socket and no others, the rest of A is back at the front,
\* and no send was made for B or C.
C1_PartialWriteRequeue ==
    ShortSendOfHead =>
      LET A == Head(last.fx.w_before)
          k == LastSend.ret
      IN /\ last.fx.w_after = <<SubSeq(A, k + 1, Len(A))>> \o Tail(last.fx.w_before)
         /\ outbound_buffer = last.fx.w_after
         /\ wire = last.pre.wire \o SubSeq(A, 1, k)
         /\ Did("send") = Len(last.fx.w_script)
         /\ socket # 0

\* C1's case: a queue of three frames whose two-byte front frame is sent by half.
C1_Witness ==
    /\ ShortSendOfHead
    /\ Len(last.fx.w_before) = 3
    /\ Len(Head(last.fx.w_before)) = 2
    /\ LastSend.ret = 1
    /\ Len(outbound_buffer) = 3

\* the sends of the last _handle_write ended with would-block
EndedWouldBlock ==
    /\ Called
    /\ last.fx.w_script # <<>>
    /\ LastSend.ret < 0
    /\ LastSend.err.errno = 11

\* C2: while the socket is open and every send so far was full, short,
\* would-block, interrupted or timed out, the bytes the socket accepted
\* followed by the frames still queued are the bytes enqueued, in enqueue
\* order; after a would-block the queue is the frames not sent yet, the
\* refused one whole and first.
C2_WriteOrdering ==
    /\ (socket # 0 /\ ~dropped) =>
         wire \o Flatten(outbound_buffer) = [i \in 1..enqueued[2] |-> i]
    /\ (socket # 0 /\ EndedWouldBlock) =>
         outbound_buffer =
           SubSeq(last.fx.w_before, SendsReturned + 1, Len(last.fx.w_before))

\* C2's case: the first of three queued frames was sent, the second met
\* would-block and stays ahead of the third.
C2_Witness ==
    /\ socket # 0
    /\ ~dropped
    /\ EndedWouldBlock
    /\ SendsReturned >= 1
    /\ Len(last.fx.w_before) = 3
    /\ Len(outbound_buffer) = 2
    /\ wire # <<>>

\* the error classifier took an error whose code is in the abort list
HandledAbort ==
    \E i \in DOMAIN last.fx.handled :
      /\ last.fx.handled[i].errno \in {9, 103, 32}
      /\ ~last.fx.handled[i].timed_out

\* C3: an abort-list error on an open socket, in whatever phase,
\* runs one disconnect sequence, leaves the socket absent and fires
\* connectionClosed exactly once.
C3_AbortClosesOnce ==
    HandledAbort =>
      /\ socket = 0
      /\ Did("disconnect") = 1
      /\ Did("connection_closed") = 1

\* the error classifier took a TLS WANT_READ or WANT_WRITE with TLS enabled
HandledTlsSignal ==
    /\ params_ssl
    /\ \E i \in DOMAIN last.fx.handled :
         /\ last.fx.handled[i].cls = "SSLError"
         /\ last.fx.handled[i].errno \in {2, 3}

\* C4: with TLS enabled, a WANT_READ or WANT_WRITE given to the error
\* classifier only sets the event mask hint (READ, WRITE): the socket stays
\* open, no disconnect sequence runs and connectionClosed does not fire.
C4_TlsSignalKeepsSocket ==
    HandledTlsSignal =>
      /\ socket # 0
      /\ Did("disconnect") = 0
      /\ Did("connection_closed") = 0
      /\ event_state \in {READ, WRITE}

\* C5: whenever the ioloop has the control and the socket is open, the event
\* mask holds READ and ERROR, and holds WRITE exactly when the outbound
\* queue is not empty.
C5_EventMaskInvariant ==
    socket # 0 =>
      /\ Has(event_state, READ)
      /\ Has(event_state, ERROR)
      /\ Has(event_state, WRITE) <=> (outbound_buffer # <<>>)

\* an enqueue on an open socket with an empty queue and the base mask
EnqueueOnIdleSocket ==
    /\ last.op = "enqueue"
    /\ last.pre.outbound_buffer = <<>>
    /\ last.pre.event_state = base_events

\* a write event on a queue that is not empty, with WRITE in the mask
WriteEvent ==
    /\ last.op = "handle_events"
    /\ last.pre.socket # 0
    /\ last.pre.outbound_buffer # <<>>
    /\ Has(last.pre.event_state, WRITE)

\* C6: enqueue on an idle open socket pushes the mask once (WRITE
\* added), no send having failed; a write event that leaves frames queued pushes nothing; the write
\* event that empties the queue pushes once (the base mask); and a pushed
\* mask always differs from the mask pushed before it.
C6_UpdateEconomy ==
    /\ (EnqueueOnIdleSocket /\ socket # 0 /\ ~dropped) =>
         Len(last.fx.updates) = 1 /\ Has(event_state, WRITE)
    /\ (WriteEvent /\ socket # 0 /\ outbound_buffer # <<>>) =>
         last.fx.updates = <<>>
    /\ (WriteEvent /\ socket # 0 /\ ~dropped /\ outbound_buffer = <<>>) =>
         Len(last.fx.updates) = 1 /\ event_state = base_events
    /\ \A i \in DOMAIN last.fx.updates :
         last.fx.updates[i].to # last.fx.updates[i].prev

\* the phase held when the disconnect sequence of the last call started:
\* that of before the call, or Closing where close() had set it
DisconnectPhase ==
    IF last.op = "close" THEN CONNECTION_CLOSING ELSE last.pre.connection_state

\* C7: a disconnect sequence run in phase ProtocolHandshake ends in
\* IncompatibleProtocolError, in Authenticating in
\* ProbableAuthenticationError, in Tuning in ProbableAccessDeniedError, and
\* in Open, Closing or Closed in no error; the phase that decides is the one
\* held when the sequence starts, and the reset leaves the phase Closed.
C7_PhaseDecidesResult ==
    Did("disconnect") >= 1 =>
      /\ connection_state = CONNECTION_CLOSED
      /\ DisconnectPhase = CONNECTION_PROTOCOL =>
           last.fx.raised = "IncompatibleProtocolError"
      /\ DisconnectPhase = CONNECTION_START =>
           last.fx.raised = "ProbableAuthenticationError"
      /\ DisconnectPhase = CONNECTION_TUNE =>
           last.fx.raised = "ProbableAccessDeniedError"
      /\ DisconnectPhase \in
           {CONNECTION_OPEN, CONNECTION_CLOSING, CONNECTION_CLOSED} =>
           last.fx.raised = "none"

\* C7's case: the peer hangs up while the connection authenticates.
C7_Witness ==
    /\ Did("disconnect") = 1
    /\ last.pre.connection_state = CONNECTION_START
    /\ last.fx.raised = "ProbableAuthenticationError"
    /\ connection_state = CONNECTION_CLOSED

\* C8: every disconnect sequence, whether or not the phase check raises,
\* ends with the heartbeat timer cancelled, the socket absent, the ioloop
\* stopped exactly when stop_ioloop_on_close is set on it (once by the sequence,
\* once more by close() where close() ran it), the event mask READ|ERROR and
\* the outbound queue empty.
C8_DisconnectCleanup ==
    Did("disconnect") >= 1 =>
      /\ Did("remove_heartbeat") >= 1
      /\ ~heartbeat
      /\ socket = 0
      /\ Did("ioloop_stop") =
           (IF ~(stop_ioloop_on_close /\ ioloop) THEN 0
            ELSE IF last.op = "close" THEN 2 ELSE 1)
      /\ event_state = 9
      /\ outbound_buffer = <<>>

\* C8's case: the phase check raises, with a frame queued and
\* stop_ioloop_on_close set.
C8_Witness ==
    /\ Did("disconnect") = 1
    /\ last.fx.raised = "ProbableAccessDeniedError"
    /\ last.pre.outbound_buffer # <<>>
    /\ stop_ioloop_on_close
    /\ Did("ioloop_stop") = 1
    /\ outbound_buffer = <<>>

\* _handle_events was called on an open socket with the mask ERROR and an
\* error whose code is in the ignore list
IgnoredErrorEvent ==
    /\ last.op = "handle_events"
    /\ last.pre.socket # 0
    /\ last.events = ERROR
    /\ last.error.cls = "OSError"
    /\ last.error.errno \in {11, 4}
    /\ ~last.error.timed_out

\* C9: _handle_events on an open socket with the mask ERROR and an error of
\* the ignore list (EWOULDBLOCK, EAGAIN, EINTR) leaves the socket open and the
\* phase, the outbound queue and the event mask as they were, and does not
\* fire connectionClosed.
C9_IgnoredErrorsChangeNothing ==
    IgnoredErrorEvent =>
      /\ socket # 0
      /\ connection_state = last.pre.connection_state
      /\ outbound_buffer = last.pre.outbound_buffer
      /\ event_state = last.pre.event_state
      /\ Did("connection_closed") = 0
      /\ Did("disconnect") = 0
      /\ last.fx.raised = "none"

\* C9's case: EINTR comes with the ERROR event while a frame is queued.
C9_Witness ==
    /\ IgnoredErrorEvent
    /\ last.error.errno = 4
    /\ Did("handle_error") = 1
    /\ outbound_buffer # <<>>
    /\ socket # 0

\* C10: a recv that returns no data runs the disconnect sequence whatever is
\* queued: the socket is absent, the queue is empty, nothing of that read is
\* delivered and no send is made after it.
C10_EmptyReadDisconnects ==
    Did("empty_read") >= 1 =>
      /\ socket = 0
      /\ Did("disconnect") = 1
      /\ outbound_buffer = <<>>
      /\ Did("deliver") = 0
      /\ \A i \in DOMAIN last.fx.log :
           last.fx.log[i] = "send" => i < FirstAt("empty_read")

\* C10's case: the peer closes while a frame waits in the queue and no write
\* event came with the read event.
C10_Witness ==
    /\ Did("empty_read") = 1
    /\ last.events = READ
    /\ last.pre.outbound_buffer # <<>>
    /\ outbound_buffer = <<>>
    /\ socket = 0

\* What a candidate does when it is tried: it connects and, under TLS,
\* finishes its handshake, or it fails (connect timeout, connect error,
\* handshake failure).
Connects(c) == c.connect = "ok" /\ (params_ssl => c.hs_end = "ok")
\* the position of the first candidate that connects (0: none does)
FirstConnecting(addresses) ==
    IF \E i \in DOMAIN addresses : Connects(addresses[i])
    THEN CHOOSE i \in DOMAIN addresses :
           /\ Connects(addresses[i])
           /\ \A j \in 1..(i - 1) : ~Connects(addresses[j])
    ELSE 0
Dialed == last.op = "open" /\ last.dial.gai = "ok"

\* C11: the candidates are tried in the order of the resolver; when the
\* candidates before the N-th fail and the N-th connects, the dial returns
\* None holding the N-th socket, made non-blocking, every socket made for
\* the candidates before it was closed, and no candidate after it was tried.
C11_DialAcrossCandidates ==
    (Dialed /\ FirstConnecting(last.dial.addresses) > 0) =>
      LET N == FirstConnecting(last.dial.addresses)
      IN /\ last.fx.result.why = "none"
         /\ last.fx.attempts = [i \in 1..N |-> i]
         /\ last.fx.created = N
         /\ last.held = N
         /\ socket # 0
         /\ last.fx.nonblocking = N
         /\ last.fx.closed = [i \in 1..(N - 1) |-> i]
         /\ Did("connect") = N

\* the dial returned an error: the resolution failed, the list was empty or
\* every candidate failed
DialFailed ==
    /\ last.op = "open"
    /\ last.fx.raised = "none"
    /\ last.fx.result.why # "none"

\* C12: when the dial fails (the resolution fails, the list of candidates is
\* empty, every candidate fails, a TLS handshake having signalled WANT_READ
\* or WANT_WRITE before it failed or not), the transport holds no socket,
\* its event mask is READ|ERROR and no mask was pushed to the ioloop.
C12_FailedOpenLeavesNothing ==
    DialFailed =>
      /\ socket = 0
      /\ event_state = 9
      /\ last.fx.updates = <<>>

\* the failure of a candidate that does not connect: that of the connect, or
\* that of the handshake
ErrorOf(c) ==
    IF c.connect = "timeout" THEN "timeout"
    ELSE IF c.connect = "error" THEN "OSError"
    ELSE IF c.hs_end = "error" THEN "SSLError"
    ELSE "socket.timeout"
\* every candidate of the list fails
AllFail(addresses) == \A i \in DOMAIN addresses : ~Connects(addresses[i])

\* C13: when every candidate fails the dial returns the error of the last
\* candidate tried, not of the first; when the list of candidates is empty it
\* returns 'No socket addresses available'; when the resolution fails with
\* an error other than EINTR it returns that error and makes no socket; a
\* resolution that was interrupted is made again.
C13_DialFailureValue ==
    last.op = "open" =>
      /\ Did("getaddrinfo") = last.dial.eintr + 1
      /\ last.dial.gai = "error" =>
           /\ last.fx.result = DialResult(0, "getaddrinfo")
           /\ last.fx.created = 0
           /\ Did("socket") = 0
           /\ socket = 0
      /\ (Dialed /\ last.dial.addresses = <<>>) =>
           /\ last.fx.result = DialResult(0, "No socket addresses available")
           /\ last.fx.created = 0
      /\ (Dialed /\ last.dial.addresses # <<>> /\ AllFail(last.dial.addresses)) =>
           LET n == Len(last.dial.addresses)
           IN /\ last.fx.raised = "none"
              /\ last.fx.result = DialResult(n, ErrorOf(last.dial.addresses[n]))
              /\ last.fx.attempts = [i \in 1..n |-> i]

\* _handle_events was called while self.socket is None
StaleEvent == last.op = "handle_events" /\ last.pre.socket = 0

\* C14: a _handle_events call made while the socket is absent, whatever the
\* event mask, the error value and write_only, reads nothing, writes
\* nothing, pushes no mask, runs no disconnect sequence, calls the protocol
\* layer not at all and leaves the state of the transport as it was.
C14_StaleEventsIgnored ==
    StaleEvent =>
      /\ Did("recv") = 0
      /\ Did("send") = 0
      /\ Did("handle_write") = 0
      /\ Did("update") = 0
      /\ last.fx.updates = <<>>
      /\ Did("handle_error") = 0
      /\ Did("disconnect") = 0
      /\ Did("ioloop_stop") = 0
      /\ Did("connection_closed") = 0
      /\ Did("deliver") = 0
      /\ last.fx.raised = "none"
      /\ Snapshot = last.pre

\* C14's case: every bit of the mask and a broken pipe arrive for a socket
\* that is gone.
C14_Witness ==
    /\ StaleEvent
    /\ last.events = 13
    /\ last.error.errno = 32
    /\ Did("closed_socket") = 1
    /\ socket = 0

\* close() was called on a connection that is closing or closed
ClosedAgain ==
    /\ last.op = "close"
    /\ last.pre.connection_state \in {CONNECTION_CLOSING, CONNECTION_CLOSED}

\* C15: close() on a connection that is closing or closed already has no
\* effect: no disconnect sequence, no connectionClosed, no request to stop
\* the ioloop, the state as it was.
C15_CloseIdempotent ==
    ClosedAgain =>
      /\ Did("disconnect") = 0
      /\ Did("connection_closed") = 0
      /\ Did("ioloop_stop") = 0
      /\ Snapshot = last.pre

\* the dial of the last call returned None: it holds a connected socket
DialSucceeded ==
    /\ last.op = "open"
    /\ last.fx.raised = "none"
    /\ last.fx.result.why = "none"
\* how often socket k was closed in the last call
ClosedTimes(k) ==
    Cardinality({i \in DOMAIN last.fx.closed : last.fx.closed[i] = k})

\* C16: every socket the transport makes is shut down and closed exactly
\* once, never twice and never left open: a dial closes each socket it made
\* but the one it returns with, and holds no socket unless it succeeded; a
\* call on a connected transport closes its socket once or not at all, and
\* the socket is absent exactly when it was closed; a shutdown that fails
\* does not keep the close from being made.
C16_SocketDestroyedOnce ==
    /\ Did("close") = Len(last.fx.closed)
    /\ Did("shutdown") + Did("shutdown_failed") = Did("close")
    /\ last.op = "open" =>
         /\ \A k \in 1..last.fx.created :
              ClosedTimes(k) = (IF DialSucceeded /\ k = last.held THEN 0 ELSE 1)
         /\ Len(last.fx.closed) <= last.fx.created
         /\ ~DialSucceeded => socket = 0
    /\ last.op \in {"enqueue", "handle_events", "close"} =>
         /\ Len(last.fx.closed) <= 1
         /\ last.pre.socket = 0 => (last.fx.closed = <<>> /\ socket = 0)
         /\ last.pre.socket # 0 => ((socket = 0) <=> (Len(last.fx.closed) = 1))

\* _handle_events was called on an open socket with ERROR in the mask and an
\* error value that is neither of the ignore list nor a TLS WANT_READ or
\* WANT_WRITE (it may be None, or have no code)
UnrecognizedErrorEvent ==
    /\ last.op = "handle_events"
    /\ last.pre.socket # 0
    /\ Has(last.events, ERROR)
    /\ ~(last.error.cls = "OSError" /\ last.error.errno \in {11, 4})
    /\ ~(last.error.cls = "SSLError" /\ last.error.errno \in {2, 3})

\* C17: a _handle_events call on an open socket with ERROR in the mask and
\* an error value that is neither of the ignore list nor a TLS WANT_READ or
\* WANT_WRITE, an absent value and a value without a code included, runs
\* the disconnect sequence and leaves the socket absent.
C17_UnrecognizedErrorsDisconnect ==
    UnrecognizedErrorEvent =>
      /\ Did("disconnect") = 1
      /\ socket = 0

\* _handle_events was called on an open socket with write_only set and READ
\* in the mask
WriteOnlyRead ==
    /\ last.op = "handle_events"
    /\ last.pre.socket # 0
    /\ last.write_only
    /\ Has(last.events, READ)

\* C18: with write_only set and READ and ERROR in the mask, _handle_events
\* on an open socket runs the disconnect sequence, makes no recv, delivers
\* nothing and does not classify the error after it (with no WRITE in the
\* mask: not at all); with write_only set, READ in the mask and ERROR not,
\* it makes no recv and its guard disconnects nothing (with no WRITE in the
\* mask the call changes nothing).
C18_WriteOnlyGuard ==
    /\ (WriteOnlyRead /\ Has(last.events, ERROR)) =>
         /\ Did("recv") = 0
         /\ Did("deliver") = 0
         /\ Did("disconnect") = 1
         /\ socket = 0
         /\ Did("bad_libc") = 1 =>
              \A i \in DOMAIN last.fx.log :
                last.fx.log[i] = "handle_error" => i < FirstAt("bad_libc")
         /\ ~Has(last.events, WRITE) =>
              (Did("bad_libc") = 1 /\ Did("handle_error") = 0)
    /\ (WriteOnlyRead /\ ~Has(last.events, ERROR)) =>
         /\ Did("recv") = 0
         /\ Did("deliver") = 0
         /\ Did("bad_libc") = 0
         /\ ~Has(last.events, WRITE) =>
              (Did("disconnect") = 0 /\ Snapshot = last.pre)

\* C18's case: READ and ERROR arrive for a write-only call on an open
\* connection, with an error value that the classifier would have ignored.
C18_Witness ==
    /\ WriteOnlyRead
    /\ last.events = 9
    /\ last.error.errno = 11
    /\ last.pre.connection_state = CONNECTION_OPEN
    /\ Did("bad_libc") = 1
    /\ Did("connection_closed") = 1
    /\ socket = 0

AfterDisconnect == {"disconnect", "handle_write", "send", "recv", "deliver",
                    "handle_error", "update", "bad_libc", "empty_read"}

\* C20: one _handle_events call, whatever its mask, runs the disconnect
\* sequence at most once; after a step has disconnected, the steps that
\* follow are skipped: no recv, nothing delivered, no error classified, no
\* mask pushed for the socket that is gone.
C20_OneDisconnectPerDispatch ==
    last.op = "handle_events" =>
      /\ Did("disconnect") <= 1
      /\ Did("connection_closed") <= 1
      /\ Did("close") <= 1
      /\ last.fx.raised # "AttributeError"
      /\ Did("disconnect") = 1 =>
           /\ socket = 0
           /\ \A i \in DOMAIN last.fx.log :
                i > FirstAt("disconnect") => last.fx.log[i] \notin AfterDisconnect

\* C20's case: READ, WRITE and ERROR arrive together with a fatal error
\* value, and the send of the write step already breaks the connection.
C20_Witness ==
    /\ last.op = "handle_events"
    /\ last.events = 13
    /\ ~last.write_only
    /\ last.error.errno = 9
    /\ last.pre.connection_state = CONNECTION_OPEN
    /\ Did("send") = 1
    /\ Did("handle_error") = 1
    /\ Did("disconnect") = 1
    /\ Did("recv") = 0
    /\ Did("connection_closed") = 1

====
